---- MODULE Spec2Model ----
(***************************************************************************)
(* Sensor platform of the ckw_hass_gs108e integration (sensor.py).         *)
(*                                                                         *)
(* The module models the descriptor catalogue (DEVICE_SENSOR_TYPES and the *)
(* PORT_TEMPLATE expansion), async_setup_entry, the sensor entity          *)
(* (constructor, async_added_to_hass, async_update_device) and the three   *)
(* collaborators the file consumes: the update coordinator (its nullable   *)
(* `data`), the platform (which attaches the entities it was handed and    *)
(* keeps the entity registry and the restore-state store) and the switch   *)
(* client (unique id, device name, port count).                            *)
(***************************************************************************)
EXTENDS Integers, Sequences, FiniteSets, TLC

(* ------------------------------ bounds --------------------------------- *)

\* Largest port count a switch of the model reports (SWITCH_PORTS in 0..MaxPorts).
MaxPorts == 2

\* Raw values a polled mapping may hold for a key: 0..MaxValue (0 is falsy).
MaxValue == 1

(* --------------------------- Python values ----------------------------- *)

\* Python's None where a raw or cached value is expected.
None == -1

Values == 0..MaxValue

\* coordinator.data is None, the bool True, or a dict from key to raw value.
NoData == [kind |-> "None"]
PyTrue == [kind |-> "bool"]
Dict(items) == [kind |-> "dict", items |-> items]

\* Variant of get with a fault: dict.get(key, 0), an absent key reads as 0.
get_default_zero(items, key) == IF key \in DOMAIN items THEN items[key] ELSE 0

\* dict.get(key): the value held for key, None when the key is absent.
get(items, key) == IF key \in DOMAIN items THEN items[key] ELSE None

(* ----------------------------- catalogue ------------------------------- *)

\* NetgearSensorEntityDescription: key, name, and the defaults index = 0 and
\* value = lambda data: data (the operator `value` below).
NetgearSensorEntityDescription(key, name) ==
    [key |-> key, name |-> name, index |-> 0]

\* The default extraction function of a description: lambda data: data.
value(data) == data

DEVICE_SENSOR_TYPES ==
    << NetgearSensorEntityDescription("switch_ip", "IP Address"),
       NetgearSensorEntityDescription("switch_name", "Switch Name"),
       NetgearSensorEntityDescription("switch_bootloader", "Switch Bootlader"),
       NetgearSensorEntityDescription("switch_firmware", "Switch Firmware"),
       NetgearSensorEntityDescription("switch_serial_number", "Switch Serial Number"),
       NetgearSensorEntityDescription("response_time_s", "Response Time (seconds)") >>

\* A template string 'a{port}b' is the pair <<a, b>> around the placeholder.
PORT_TEMPLATE ==
    << [key |-> <<"port_", "_traffic_rx_mbytes">>, name |-> <<"Port ", " Traffic Received">>],
       [key |-> <<"port_", "_traffic_tx_mbytes">>, name |-> <<"Port ", " Traffic Transferred">>],
       [key |-> <<"port_", "_speed_rx_mbytes">>,   name |-> <<"Port ", " Receiving">>],
       [key |-> <<"port_", "_speed_tx_mbytes">>,   name |-> <<"Port ", " Receiving">>],
       [key |-> <<"port_", "_speed_io_mbytes">>,   name |-> <<"Port ", " Receiving">>] >>

\* Variant of format with a fault: the placeholder is dropped, not filled.
format_plain(template, port_nr) == template[1] \o template[2]

\* str.format(port=port_nr) on a template string.
format(template, port_nr) == template[1] \o ToString(port_nr) \o template[2]

\* The description async_setup_entry builds for one template entry and port.
PortDescription(t, port_nr) ==
    NetgearSensorEntityDescription(format(PORT_TEMPLATE[t].key, port_nr),
                                   format(PORT_TEMPLATE[t].name, port_nr))

\* The descriptions async_setup_entry instantiates, in order: the device level
\* ones, then for i in range(ports_cnt), port_nr = i + 1, the template entries.
Descriptions(ports_cnt) ==
    DEVICE_SENSOR_TYPES \o
    [j \in 1..(ports_cnt * Len(PORT_TEMPLATE)) |->
        PortDescription(((j - 1) % Len(PORT_TEMPLATE)) + 1,
                        ((j - 1) \div Len(PORT_TEMPLATE)) + 1)]

(* ------------------------------ inputs --------------------------------- *)

\* The switch client: stable unique id, device name, port count.
Switches ==
    { [unique_id |-> "gs108e", device_name |-> "GS108E", SWITCH_PORTS |-> n] :
        n \in 0..MaxPorts }

\* Keys the polled mappings of the model may hold. Every other key of the
\* catalogue is absent from every poll, so its entity takes the missing-key path.
PolledKeys == {"response_time_s"}

\* The mappings a poll may produce.
Snapshots ==
    { Dict(items) : items \in UNION { [D -> Values] : D \in SUBSET PolledKeys } }

(* ------------------------------- state --------------------------------- *)

VARIABLES
    switch,            \* the switch client handed to setup (fixed in a behaviour)
    coordinator_data,  \* coordinator.data
    pc,                \* async_setup_entry: "start" before the call, "done" after
                       \* its return ("failed": a constructor raised)
    switch_entities,   \* the entity list setup builds and hands to the platform
    attached,          \* number of entities of the list whose async_added_to_hass
                       \* has finished
    attach_pc,         \* position of async_added_to_hass of entity attached + 1:
                       \* "idle" (not called), "subscribed" (suspended in line
                       \* 549, subscribed), "lookup" (suspended in line 551)
    restored,          \* history: entities whose _value was restored at attach
                       \* and that no refresh has since updated from a mapping
    persisted,         \* platform restore store: unique id -> last native_value
    registry,          \* platform entity registry: unique id -> descriptor key
    last               \* the latest async_update_device call of a notification

vars == << switch, coordinator_data, pc, switch_entities, attached, attach_pc,
           restored, persisted, registry, last >>

NoCall == [entity |-> 0, outcome |-> "none"]

(* ------------------------------ entity --------------------------------- *)

\* Variants of async_update_device with one fault each; the claims are checked
\* to tell the model from them.
\* `if not data:` in place of `if data is None:` (a falsy raw value is dropped).
async_update_device_falsy(data, self) ==
    IF data = NoData
    THEN [self |-> self, outcome |-> "skipped"]
    ELSE IF data.kind # "dict"
    THEN [self |-> self, outcome |-> "AttributeError"]
    ELSE LET d == get(data.items, self.entity_description.key) IN
         IF d = None \/ d = 0
         THEN [self |-> [self EXCEPT !._value = None], outcome |-> "cleared"]
         ELSE [self |-> [self EXCEPT !._value = value(d)], outcome |-> "extracted"]

\* The missing-key branch returns without `self._value = None`.
async_update_device_keeps(data, self) ==
    IF data = NoData
    THEN [self |-> self, outcome |-> "skipped"]
    ELSE IF data.kind # "dict"
    THEN [self |-> self, outcome |-> "AttributeError"]
    ELSE LET d == get(data.items, self.entity_description.key) IN
         IF d = None
         THEN [self |-> self, outcome |-> "cleared"]
         ELSE [self |-> [self EXCEPT !._value = value(d)], outcome |-> "extracted"]

\* No `if self.coordinator.data is None: return`: None.get raises as well.
async_update_device_unguarded(data, self) ==
    IF data.kind # "dict"
    THEN [self |-> self, outcome |-> "AttributeError"]
    ELSE LET d == get(data.items, self.entity_description.key) IN
         IF d = None
         THEN [self |-> [self EXCEPT !._value = None], outcome |-> "cleared"]
         ELSE [self |-> [self EXCEPT !._value = value(d)], outcome |-> "extracted"]

\* The unset-snapshot branch clears the value before it returns.
async_update_device_resets(data, self) ==
    IF data = NoData
    THEN [self |-> [self EXCEPT !._value = None], outcome |-> "skipped"]
    ELSE IF data.kind # "dict"
    THEN [self |-> self, outcome |-> "AttributeError"]
    ELSE LET d == get(data.items, self.entity_description.key) IN
         IF d = None
         THEN [self |-> [self EXCEPT !._value = None], outcome |-> "cleared"]
         ELSE [self |-> [self EXCEPT !._value = value(d)], outcome |-> "extracted"]

\* async_update_device on entity `self` with coordinator.data = data: the
\* entity afterwards and how the call ended ("AttributeError": data.get on a
\* value that is no dict raised, and the call assigned nothing).
async_update_device(data, self) ==
    IF data = NoData
    THEN [self |-> self, outcome |-> "skipped"]
    ELSE IF data.kind # "dict"
    THEN [self |-> self, outcome |-> "AttributeError"]
    ELSE LET d == get(data.items, self.entity_description.key) IN
         IF d = None
         THEN [self |-> [self EXCEPT !._value = None], outcome |-> "cleared"]
         ELSE [self |-> [self EXCEPT !._value = value(d)], outcome |-> "extracted"]

\* Variant of unique_id with a fault: the last part is taken from the polled
\* data (the raw value of the key, -1 without one) instead of the index.
unique_id_from_data(sw, entity_description) ==
    sw.unique_id \o "-" \o entity_description.key \o "-"
        \o ToString(IF coordinator_data.kind = "dict"
                    THEN get(coordinator_data.items, entity_description.key)
                    ELSE None)

\* f"{switch.unique_id}-{entity_description.key}-{entity_description.index}"
unique_id(sw, entity_description) ==
    sw.unique_id \o "-" \o entity_description.key \o "-"
        \o ToString(entity_description.index)

\* NetgearRouterSensorEntity.__init__: the fields, then async_update_device.
NetgearRouterSensorEntity(data, sw, entity_description) ==
    async_update_device(data,
        [entity_description |-> entity_description,
         _name      |-> sw.device_name \o " " \o entity_description.name,
         _unique_id |-> unique_id(sw, entity_description),
         _value     |-> None])

\* async_get_last_sensor_data() of entity `self`: the data the platform's
\* restore store holds under the entity's unique id, None (found = FALSE)
\* without any.
async_get_last_sensor_data(store, self) ==
    IF self._unique_id \in DOMAIN store
    THEN [found |-> TRUE, native_value |-> store[self._unique_id]]
    ELSE [found |-> FALSE, native_value |-> None]

\* async_added_to_hass on entity `self` when neither await suspends: with
\* coordinator.data None, sensor data of the restore store that is not None
\* sets _value to its native_value.
async_added_to_hass(data, store, self) ==
    IF data = NoData
    THEN LET sensor_data == async_get_last_sensor_data(store, self)
         IN IF sensor_data.found
            THEN [self EXCEPT !._value = sensor_data.native_value]
            ELSE self
    ELSE self

\* The platform's entity registry `reg` after the entities `ents` were added:
\* an entity whose unique id the registry does not hold is entered under it.
registered(reg, ents) ==
    LET new == { ents[i]._unique_id : i \in DOMAIN ents }
    IN [u \in DOMAIN reg \cup new |->
           IF u \in DOMAIN reg THEN reg[u]
           ELSE LET i == CHOOSE j \in DOMAIN ents : ents[j]._unique_id = u
                IN ents[i].entity_description.key]

\* What the call async_add_entities(switch_entities) of n entities can have
\* run when it returns. The callback is the platform's: it starts the task
\* that adds the entities, and the task runs inside the call until it really
\* suspends. k entities have finished async_added_to_hass; with stop
\* "subscribed" or "lookup" the next one is suspended in its first or second
\* await (the second is reached only with coordinator.data None), with "idle"
\* the task is suspended between two entities (k = 0: it was only scheduled).
EagerRuns(data, n) ==
    { r \in [k : 0..n, stop : {"idle", "subscribed", "lookup"}] :
        /\ r.stop # "idle" => r.k < n
        /\ r.stop = "lookup" => data = NoData }

\* native_value of the i-th entity of the list.
native_value(i) == switch_entities[i]._value

(* ------------------------------ actions -------------------------------- *)

Init ==
    /\ switch \in Switches
    /\ coordinator_data \in {NoData} \cup Snapshots
    /\ pc = "start"
    /\ switch_entities = << >>
    /\ attached = 0
    /\ attach_pc = "idle"
    /\ restored = {}
    /\ persisted = << >>
    /\ registry = << >>
    /\ last = NoCall

\* Variant of async_setup_entry with a fault: setup returns without the
\* assignment to coordinator_switch_infos.data.
async_setup_entry_keeps ==
    /\ pc = "start"
    /\ LET descr == Descriptions(switch.SWITCH_PORTS)
           built == [i \in 1..Len(descr) |->
                        NetgearRouterSensorEntity(coordinator_data, switch, descr[i])]
           ok    == \A i \in 1..Len(descr) : built[i].outcome # "AttributeError"
           ents  == [i \in 1..Len(descr) |-> built[i].self]
       IN IF ~ok
          THEN /\ pc' = "failed"
               /\ UNCHANGED << coordinator_data, switch_entities, attached,
                               attach_pc, restored, registry >>
          ELSE \E r \in EagerRuns(coordinator_data, Len(ents)) :
                  /\ switch_entities' =
                        [i \in 1..Len(ents) |->
                            IF i <= r.k
                            THEN async_added_to_hass(coordinator_data, persisted,
                                                     ents[i])
                            ELSE ents[i]]
                  /\ attached' = r.k
                  /\ attach_pc' = r.stop
                  /\ restored' =
                        { i \in 1..r.k :
                            /\ coordinator_data = NoData
                            /\ async_get_last_sensor_data(persisted, ents[i]).found
                            /\ async_get_last_sensor_data(persisted, ents[i])
                                   .native_value # None }
                  /\ registry' =
                        registered(registry,
                                   SubSeq(ents, 1, IF r.stop = "idle" THEN r.k
                                                   ELSE r.k + 1))
                  /\ UNCHANGED coordinator_data
                  /\ pc' = "done"
    /\ last' = NoCall
    /\ UNCHANGED << switch, persisted >>

\* async_setup_entry, one call without a suspension point of its own: it
\* builds the entities (a constructor that raises ends it before anything is
\* handed over), calls async_add_entities(switch_entities), inside which the
\* platform may run async_added_to_hass of the entities under the
\* coordinator.data of the entry (EagerRuns), and then assigns
\* coordinator_switch_infos.data = True.
async_setup_entry ==
    /\ pc = "start"
    /\ LET descr == Descriptions(switch.SWITCH_PORTS)
           built == [i \in 1..Len(descr) |->
                        NetgearRouterSensorEntity(coordinator_data, switch, descr[i])]
           ok    == \A i \in 1..Len(descr) : built[i].outcome # "AttributeError"
           ents  == [i \in 1..Len(descr) |-> built[i].self]
       IN IF ~ok
          THEN /\ pc' = "failed"
               /\ UNCHANGED << coordinator_data, switch_entities, attached,
                               attach_pc, restored, registry >>
          ELSE \E r \in EagerRuns(coordinator_data, Len(ents)) :
                  /\ switch_entities' =
                        [i \in 1..Len(ents) |->
                            IF i <= r.k
                            THEN async_added_to_hass(coordinator_data, persisted,
                                                     ents[i])
                            ELSE ents[i]]
                  /\ attached' = r.k
                  /\ attach_pc' = r.stop
                  /\ restored' =
                        { i \in 1..r.k :
                            /\ coordinator_data = NoData
                            /\ async_get_last_sensor_data(persisted, ents[i]).found
                            /\ async_get_last_sensor_data(persisted, ents[i])
                                   .native_value # None }
                  /\ registry' =
                        registered(registry,
                                   SubSeq(ents, 1, IF r.stop = "idle" THEN r.k
                                                   ELSE r.k + 1))
                  /\ coordinator_data' = PyTrue
                  /\ pc' = "done"
    /\ last' = NoCall
    /\ UNCHANGED << switch, persisted >>

\* The entities the coordinator notifies: those whose async_added_to_hass has
\* finished and the one whose async_added_to_hass has subscribed it.
Listeners ==
    1..(IF attach_pc = "idle" THEN attached ELSE attached + 1)

\* After setup has returned, the platform's task adds the next entity of the
\* list: it enters the entity in the registry under its unique id and calls
\* async_added_to_hass, which runs up to its first suspension point, `await
\* super().async_added_to_hass()`, where the base class subscribes the entity
\* to the coordinator.
async_added_to_hass_super ==
    /\ pc = "done"
    /\ attach_pc = "idle"
    /\ attached < Len(switch_entities)
    /\ registry' = registered(registry, << switch_entities[attached + 1] >>)
    /\ attach_pc' = "subscribed"
    /\ last' = NoCall
    /\ UNCHANGED << switch, coordinator_data, pc, switch_entities, attached,
                    restored, persisted >>

\* async_added_to_hass resumes after line 549: `if self.coordinator.data is
\* None`. With data it returns; without, it calls async_get_last_sensor_data()
\* and reaches its second suspension point.
async_added_to_hass_check ==
    /\ attach_pc = "subscribed"
    /\ IF coordinator_data = NoData
       THEN /\ attach_pc' = "lookup"
            /\ attached' = attached
       ELSE /\ attach_pc' = "idle"
            /\ attached' = attached + 1
    /\ last' = NoCall
    /\ UNCHANGED << switch, coordinator_data, pc, switch_entities, restored,
                    persisted, registry >>

\* async_added_to_hass resumes after line 551 with the sensor data of the
\* restore store: data that is not None sets _value to its native_value.
async_added_to_hass_restore ==
    /\ attach_pc = "lookup"
    /\ LET i           == attached + 1
           self        == switch_entities[i]
           sensor_data == async_get_last_sensor_data(persisted, self)
       IN /\ switch_entities' =
                IF sensor_data.found
                THEN [switch_entities EXCEPT ![i]._value = sensor_data.native_value]
                ELSE switch_entities
          /\ restored' = IF sensor_data.found /\ sensor_data.native_value # None
                         THEN restored \cup {i} ELSE restored
          /\ attached' = i
    /\ attach_pc' = "idle"
    /\ last' = NoCall
    /\ UNCHANGED << switch, coordinator_data, pc, persisted, registry >>

\* Variant of Refresh with a fault: _value is one attribute shared by all the
\* entities (a class attribute), so the value a notification assigns shows on
\* every entity.
Refresh_shared(i) ==
    /\ i \in Listeners
    /\ LET r == async_update_device(coordinator_data, switch_entities[i])
       IN /\ switch_entities' =
                [j \in 1..Len(switch_entities) |->
                    [switch_entities[j] EXCEPT !._value = r.self._value]]
          /\ restored' = IF coordinator_data.kind = "dict"
                         THEN restored \ {i} ELSE restored
          /\ last' = [entity |-> i, outcome |-> r.outcome]
    /\ UNCHANGED << switch, coordinator_data, pc, attached, attach_pc, persisted,
                    registry >>

\* The coordinator notifies attached entity i: its async_update_device runs.
Refresh(i) ==
    /\ i \in Listeners
    /\ LET r == async_update_device(coordinator_data, switch_entities[i])
       IN /\ switch_entities' = [switch_entities EXCEPT ![i] = r.self]
          /\ restored' = IF coordinator_data.kind = "dict"
                         THEN restored \ {i} ELSE restored
          /\ last' = [entity |-> i, outcome |-> r.outcome]
    /\ UNCHANGED << switch, coordinator_data, pc, attached, attach_pc, persisted,
                    registry >>

\* A poll cycle of the external coordinator replaces its data.
Poll(d) ==
    /\ pc = "done"
    /\ d # coordinator_data
    /\ coordinator_data' = d
    /\ last' = NoCall
    /\ UNCHANGED << switch, pc, switch_entities, attached, attach_pc, restored,
                    persisted, registry >>

\* The process stops and starts again: the platform has stored the
\* native_value of every attached entity under its unique id; a new coordinator
\* starts with no data or with a first poll's mapping; setup runs again for
\* the same switch.
Restart ==
    /\ pc = "done"
    /\ attached = Len(switch_entities)
    /\ attach_pc = "idle"
    /\ persisted' = [u \in { switch_entities[i]._unique_id : i \in 1..attached } |->
                        LET i == CHOOSE j \in 1..attached :
                                    switch_entities[j]._unique_id = u
                        IN native_value(i)]
    /\ coordinator_data' \in {NoData} \cup Snapshots
    /\ pc' = "start"
    /\ switch_entities' = << >>
    /\ attached' = 0
    /\ restored' = {}
    /\ last' = NoCall
    /\ UNCHANGED << switch, attach_pc, registry >>

Next ==
    \/ async_setup_entry
    \/ async_added_to_hass_super
    \/ async_added_to_hass_check
    \/ async_added_to_hass_restore
    \/ \E i \in 1..Len(switch_entities) : Refresh(i)
    \/ \E d \in {NoData} \cup Snapshots : Poll(d)
    \/ Restart

Spec == Init /\ [][Next]_vars

(* ------------------------------ claims --------------------------------- *)

\* Key of the i-th entity of the list.
key(i) == switch_entities[i].entity_description.key

Entities == 1..Len(switch_entities)

IsDict(data) == data.kind = "dict"

\* C1: the refresh callback never raises: no refresh notification, in any
\* reachable coordinator state, ends with an exception.
C1_RefreshNeverRaises == last.outcome # "AttributeError"

\* C2: no operation of this repository (setup, entity construction, attach,
\* refresh) changes coordinator.data; only the coordinator's poll replaces it.
C2_SnapshotReadOnly ==
    [][(\/ async_setup_entry
        \/ async_added_to_hass_super
        \/ async_added_to_hass_check
        \/ async_added_to_hass_restore
        \/ \E i \in Entities : Refresh(i))
       => coordinator_data' = coordinator_data]_vars

\* C3 as stated: in every reachable state in which the coordinator holds a
\* snapshot, each entity's cached value is null or the extraction function
\* applied to the value that snapshot holds for the entity's key.
C3_ValueFromLatestSnapshot ==
    IsDict(coordinator_data) =>
        \A i \in Entities :
            \/ native_value(i) = None
            \/ native_value(i) = value(get(coordinator_data.items, key(i)))

\* C3 as amended: every step that changes an entity's cached value (for a new
\* entity: from the null it starts with) sets it to null, or to the extraction
\* function applied to the value the coordinator's current snapshot holds for
\* the entity's key, or, in the step of the entity's attach that follows the
\* lookup in the restore store (a step of its own, or part of the setup call
\* when the platform ran the attach inside it with the snapshot unset), to the
\* value persisted for the entity.
C3_ValueOrigin ==
    [][\A i \in 1..Len(switch_entities') :
          LET old  == IF i \in Entities THEN native_value(i) ELSE None
              self == switch_entities'[i]
              new  == self._value
              k    == self.entity_description.key
          IN new # old =>
               \/ new = None
               \/ /\ IsDict(coordinator_data)
                  /\ k \in DOMAIN coordinator_data.items
                  /\ new = value(coordinator_data.items[k])
               \/ /\ \/ attach_pc = "lookup" /\ attach_pc' = "idle" /\ i = attached'
                     \/ pc = "start" /\ coordinator_data = NoData /\ i <= attached'
                  /\ self._unique_id \in DOMAIN persisted
                  /\ new = persisted[self._unique_id]]_vars

\* C3 witness: an attached entity holds a value of an earlier snapshot while the
\* latest snapshot holds another value for its key.
C3_Witness ==
    \E i \in 1..attached :
        /\ i \notin restored
        /\ native_value(i) # None
        /\ IsDict(coordinator_data)
        /\ key(i) \in DOMAIN coordinator_data.items
        /\ native_value(i) # value(coordinator_data.items[key(i)])

\* C4: the attach never overwrites a value computed from a live snapshot: an
\* entity whose cached value is non-null before the step that ends its
\* async_added_to_hass (only async_update_device, in the constructor or in a
\* notification, can have set it) keeps the value in that step; so does an
\* entity whose attach ran inside the setup call, of the value its constructor
\* computed.
C4_RestoreNeverOverwrites ==
    [][/\ (pc = "done" /\ attached' = attached + 1)
          => (native_value(attached') # None =>
                 switch_entities'[attached']._value = native_value(attached'))
       /\ (pc = "start" /\ pc' = "done")
          => \A i \in 1..attached' :
                LET built == NetgearRouterSensorEntity(
                                 coordinator_data, switch,
                                 Descriptions(switch.SWITCH_PORTS)[i]).self
                IN built._value # None =>
                      switch_entities'[i]._value = built._value]_vars

\* C5: an entity that restored a persisted value P at attach reports P in every
\* later state, refreshes under an unset snapshot included, until a refresh
\* sees a mapping.
C5_Restoration ==
    \A i \in restored :
        /\ i \in Listeners
        /\ switch_entities[i]._unique_id \in DOMAIN persisted
        /\ native_value(i) = persisted[switch_entities[i]._unique_id]

\* C5 witness: a refresh arrived on a restored entity while the snapshot was
\* unset, and the entity still reports the restored value.
C5_Witness ==
    \E i \in restored :
        /\ last = [entity |-> i, outcome |-> "skipped"]
        /\ native_value(i) # None

\* C6: right after a refresh notification on an entity whose key K the snapshot
\* holds with value V, the entity is still bound to K and its cached value is
\* extraction(V).
C6_RefreshExtracts ==
    \A i \in Entities :
        (/\ last.entity = i
         /\ IsDict(coordinator_data)
         /\ key(i) \in DOMAIN coordinator_data.items)
        => /\ native_value(i) = value(coordinator_data.items[key(i)])
           /\ last.outcome = "extracted"
           /\ switch_entities[i].entity_description =
                  Descriptions(switch.SWITCH_PORTS)[i]

\* C6 witness: a refresh extracted the falsy raw value 0.
C6_Witness ==
    /\ last.outcome = "extracted"
    /\ IsDict(coordinator_data)
    /\ coordinator_data.items[key(last.entity)] = 0
    /\ native_value(last.entity) = 0

\* C7: right after a refresh notification on an entity whose key the (set)
\* snapshot does not hold, the cached value is null and the call did not fail.
C7_MissingKeyClears ==
    \A i \in Entities :
        (/\ last.entity = i
         /\ IsDict(coordinator_data)
         /\ key(i) \notin DOMAIN coordinator_data.items)
        => /\ native_value(i) = None
           /\ last.outcome = "cleared"

\* C7 witness: a refresh cleared the entity of a polled key under a snapshot
\* that lacks the key.
C7_Witness ==
    \E i \in Entities :
        /\ last = [entity |-> i, outcome |-> "cleared"]
        /\ key(i) \in PolledKeys
        /\ IsDict(coordinator_data)
        /\ key(i) \notin DOMAIN coordinator_data.items
        /\ native_value(i) = None

\* C8: a refresh notification processed while the snapshot is unset leaves the
\* entity (its cached value included) as it was and returns; so does every
\* repetition of it.
C8_UnsetIsNoOp ==
    [][\A i \in Entities :
          (last'.entity = i /\ coordinator_data = NoData)
          => /\ switch_entities' = switch_entities
             /\ last'.outcome = "skipped"]_vars

\* C8 witness: a refresh was skipped on an entity that holds a non-null value.
C8_Witness ==
    /\ last.outcome = "skipped"
    /\ coordinator_data = NoData
    /\ native_value(last.entity) # None

\* The five keys the catalogue is to hold for each port p.
PortKeys ==
    [p \in 1..MaxPorts |->
        { "port_" \o ToString(p) \o suffix :
            suffix \in { "_traffic_rx_mbytes", "_traffic_tx_mbytes",
                         "_speed_rx_mbytes", "_speed_tx_mbytes",
                         "_speed_io_mbytes" } }]

\* C9: for port count N, setup hands the platform the device level entities of
\* DEVICE_SENSOR_TYPES followed by exactly N*5 port level entities, five for
\* each port 1..N, and the keys of all of them are pairwise distinct.
C9_Catalogue ==
    pc = "done" =>
        LET n == switch.SWITCH_PORTS
            m == Len(DEVICE_SENSOR_TYPES)
        IN /\ Len(switch_entities) = m + n * 5
           /\ \A i \in 1..m :
                 switch_entities[i].entity_description = DEVICE_SENSOR_TYPES[i]
           /\ \A i \in (m + 1)..Len(switch_entities) :
                 \E p \in 1..n : key(i) \in PortKeys[p]
           /\ \A p \in 1..n :
                 Cardinality({ i \in (m + 1)..Len(switch_entities) :
                                  key(i) \in PortKeys[p] }) = 5
           /\ \A i, j \in Entities : i # j => key(i) # key(j)

\* C9 witness: setup has run for a switch with the largest port count and the
\* platform has attached every entity.
C9_Witness ==
    /\ pc = "done"
    /\ switch.SWITCH_PORTS = MaxPorts
    /\ MaxPorts >= 2
    /\ attached = Len(switch_entities)

\* C10: the unique id an entity is constructed with is the one the registry
\* holds for its descriptor key from any earlier construction cycle of the same
\* device, whatever the snapshot, the cached values and the restored state.
C10_UniqueIdStable ==
    \A i \in Entities :
        \A u \in DOMAIN registry :
            registry[u] = key(i) => u = switch_entities[i]._unique_id

\* C10 witness: a later construction cycle (the restore store is filled) has
\* attached every entity, one of them with a restored value, and the registry
\* holds one id per entity.
C10_Witness ==
    /\ DOMAIN persisted # {}
    /\ pc = "done"
    /\ attached = Len(switch_entities)
    /\ restored # {}
    /\ Cardinality(DOMAIN registry) = Len(switch_entities)

\* C11: a refresh notification or an attach step on entity e leaves every other
\* entity as it was, and the value a refresh under a snapshot leaves on e is
\* fixed by the snapshot and e's key alone; so under a fixed snapshot the values
\* the entities end with do not depend on the order of the notifications.
C11_NoInterference ==
    [][\A e \in Entities :
          (last'.entity = e \/ (attach_pc' # attach_pc /\ e = attached + 1))
          => /\ Len(switch_entities') = Len(switch_entities)
             /\ \A j \in Entities \ {e} : switch_entities'[j] = switch_entities[j]
             /\ (last'.entity = e /\ IsDict(coordinator_data))
                => switch_entities'[e]._value =
                      value(get(coordinator_data.items, key(e)))]_vars

\* C11 witness: under a snapshot, a notification on entity j came after entity
\* i took its value from the snapshot, a later entity has been attached since i
\* was, and i still holds the snapshot's value.
C11_Witness ==
    \E i, j \in 1..attached :
        /\ i # j
        /\ i < attached
        /\ last.entity = j
        /\ IsDict(coordinator_data)
        /\ key(i) \in DOMAIN coordinator_data.items
        /\ native_value(i) = value(coordinator_data.items[key(i)])

\* C12 as stated: when async_setup_entry returns, coordinator.data is not
\* None; every step of an async_added_to_hass that runs after the return while
\* the data is still the value setup wrote (no poll has replaced it) changes no
\* entity, restores nothing and does not go on to the lookup; and
\* async_added_to_hass goes on to the lookup only if coordinator.data is None.
C12_NoRestoreAfterReturn ==
    [][/\ (pc # "done" /\ pc' = "done") => coordinator_data' # NoData
       /\ (pc = "done" /\ attach_pc' # attach_pc /\ coordinator_data = PyTrue)
          => (/\ attach_pc' # "lookup"
              /\ switch_entities' = switch_entities
              /\ restored' = restored)
       /\ (attach_pc # "lookup" /\ attach_pc' = "lookup")
          => coordinator_data = NoData]_vars

\* C12 as amended: when async_setup_entry returns, coordinator.data is not
\* None; an async_added_to_hass that takes its test after the return while the
\* data is still the value setup wrote (no poll has replaced it) returns
\* without a lookup, changes no entity and restores nothing; and
\* async_added_to_hass goes on to the lookup, and so to a restore, only if
\* coordinator.data is None at its test: inside the setup call only if the
\* data was None on entry, after the return only after a poll has set it back
\* to None. The restore itself may come after the return.
C12_AttachAfterSetup ==
    [][/\ (pc # "done" /\ pc' = "done") => coordinator_data' # NoData
       /\ (pc = "done" /\ attach_pc = "subscribed" /\ attach_pc' # attach_pc
              /\ coordinator_data = PyTrue)
          => (/\ attach_pc' = "idle"
              /\ attached' = attached + 1
              /\ switch_entities' = switch_entities
              /\ restored' = restored)
       /\ (attach_pc # "lookup" /\ attach_pc' = "lookup")
          => coordinator_data = NoData
       /\ (pc = "done" /\ attach_pc' # attach_pc
              /\ (switch_entities' # switch_entities \/ restored' # restored))
          => attach_pc = "lookup"
       /\ (pc = "start" /\ pc' = "done" /\ coordinator_data # NoData)
          => /\ restored' = {}
             /\ \A i \in 1..Len(switch_entities') :
                   switch_entities'[i] =
                       NetgearRouterSensorEntity(
                           coordinator_data, switch,
                           Descriptions(switch.SWITCH_PORTS)[i]).self]_vars

\* C12 witness: setup has returned, no poll has replaced the data it wrote, and
\* an attached entity for which the restore store holds a value reports null:
\* the stored value was not restored.
C12_Witness ==
    /\ pc = "done"
    /\ coordinator_data = PyTrue
    /\ \E i \in 1..attached :
          /\ switch_entities[i]._unique_id \in DOMAIN persisted
          /\ persisted[switch_entities[i]._unique_id] # None
          /\ i \notin restored
          /\ native_value(i) = None

====
